---- MODULE Spec2Model ----
(***************************************************************************)
(* Polygon persistence service (server/src/server.ts): four express        *)
(* handlers over a Postgres table "polygons" and one redis key "polygons"  *)
(* holding the serialized full listing with a 3600 s expiry.               *)
(*                                                                         *)
(* Every await of a handler is one step: the Store (pool.query) and the    *)
(* cache (redis.get / redis.set) are shared, and other requests interleave *)
(* between two awaits of the same request.                                 *)
(***************************************************************************)
EXTENDS Integers, Sequences, FiniteSets, TLC

(***************************************************************************)
(* Bounds of the model.                                                    *)
(***************************************************************************)
\* Requests the server processes at the same time.
NumHandlers == 2
\* Cap on the number of committed Store mutations (and on the id sequence)
\* when requests come one at a time, and when they interleave.
MaxCommits == 3
MaxConcCommits == 2
\* The same cap when every combination of body fields is tried.
MaxWideCommits == 1
\* The same cap for the requests that run next to the seed script.
MaxSeedCommits == 1

Handlers == 1..NumHandlers

(***************************************************************************)
(* Program constants.                                                      *)
(***************************************************************************)
\* redis.set("polygons", ..., "EX", 3600)
EX == 3600
\* Time passes in steps of half an expiry period.
Quantum == EX \div 2

(***************************************************************************)
(* Request inputs.  A body field that may be missing is <<>> (undefined)   *)
(* or <<v>>.                                                               *)
(***************************************************************************)
Undefined == <<>>
Some(v) == <<v>>
IsUndefined(f) == Len(f) = 0
Val(f) == f[1]

\* session_id UUID NOT NULL: Postgres accepts only well-formed UUIDs.
S1 == "00000000-0000-0000-0000-000000000000"
S2 == "11111111-1111-1111-1111-111111111111"
NotAUuid == "s1"
IsUuid(s) == s \in {S1, S2}

\* name VARCHAR(255) NOT NULL: LongName stands for a name of 256 characters.
LongName == "L256"
FitsVarchar255(n) == n # LongName

P1 == <<0, 0>>
P2 == <<1, 1>>
P3 == <<2, 2>>
P4 == <<0, 2>>
Coords2 == <<P1, P2>>
Coords3 == <<P1, P2, P3>>
Coords4 == <<P1, P2, P3, P4>>
\* A ring that crosses itself, with a vertex outside the longitude/latitude
\* range, not closed.
P5 == <<2, 0>>
Far == <<200, 100>>
Bowtie == <<P1, P3, P4, P5, Far>>

\* req.params.id is text; Postgres casts it to the integer column.
NumId(n) == [num |-> TRUE, n |-> n]
TextId == [num |-> FALSE, n |-> 0]

\* Request bodies.
PostBody(name, coordinates, sessionId) ==
    [name |-> name, coordinates |-> coordinates, sessionId |-> sessionId]
\* The body of PUT may carry a sessionId as well; the handler reads name and
\* coordinates only (server.ts:123).
PutBody(name, coordinates, sessionId) ==
    [name |-> name, coordinates |-> coordinates, sessionId |-> sessionId]

\* A set of request inputs: the bodies of POST and of PUT, the :id values, and
\* the cap on commits.
\* Inputs of the sequential specification (one request at a time).
SeqInputs ==
    [posts |-> {PostBody(Some("A"), Some(Coords3), Some(S1)),
                PostBody(Some("A"), Some(Coords3), Some(S2)),
                PostBody(Some(""), Some(Coords3), Some(S1)),
                PostBody(Some("A"), Some(Coords2), Some(S1)),
                PostBody(Some("A"), Some(Coords3), Some(NotAUuid))},
     puts |-> {PutBody(Some("B"), Some(Coords4), Undefined),
               PutBody(Some("B"), Some(Coords4), Some(S2)),
               PutBody(Some("B"), Some(<<>>), Undefined)},
     ids |-> {NumId(n) : n \in 1..MaxCommits},
     cap |-> MaxCommits]

\* Inputs of the concurrent specification (requests interleave).
ConcInputs ==
    [posts |-> {PostBody(Some("A"), Some(Coords3), Some(S1)),
                PostBody(Some("A"), Some(Coords2), Some(S1))},
     puts |-> {PutBody(Some("B"), Some(Coords4), Undefined)},
     ids |-> {NumId(n) : n \in 1..MaxConcCommits},
     cap |-> MaxConcCommits]

\* Inputs of the requests that run next to the seed script.
SeedInputs ==
    [posts |-> {PostBody(Some("A"), Some(Coords3), Some(S2))},
     puts |-> {PutBody(Some("B"), Some(Coords4), Undefined)},
     ids |-> {NumId(n) : n \in 1..(MaxSeedCommits + 1)},
     cap |-> MaxSeedCommits]

\* Every combination of body fields and every kind of :id, over a seeded
\* Store that takes one more commit.
WideInputs ==
    [posts |-> [name : {Undefined, Some(""), Some("A"), Some(LongName)},
                coordinates : {Undefined, Some(<<>>), Some(Coords2),
                               Some(Coords3), Some(Coords4), Some(Bowtie)},
                sessionId : {Undefined, Some(NotAUuid), Some(S1), Some(S2)}],
     puts |-> [name : {Undefined, Some(""), Some("B"), Some(LongName)},
               coordinates : {Undefined, Some(<<>>), Some(Coords2),
                              Some(Coords3), Some(Coords4), Some(Bowtie)},
               sessionId : {Undefined, Some(S2)}],
     ids |-> {NumId(n) : n \in 1..(MaxWideCommits + 2)} \cup {TextId},
     cap |-> MaxWideCommits]

(***************************************************************************)
(* JSON.  JSON.stringify wraps a value into a document (a string);         *)
(* JSON.parse unwraps a document and throws on any other string.           *)
(***************************************************************************)
JSONstringify(v) == [json |-> TRUE, doc |-> v]
NotJSON == [json |-> FALSE, doc |-> {}]
JSONparses(s) == s.json
JSONparse(s) == s.doc

(***************************************************************************)
(* isValidPolygon (server.ts:54) and the guard of POST and PUT (80, 125).  *)
(***************************************************************************)
\* The check off by one: two vertices are enough.
isValidPolygonAtLeastTwo(coordinates) == Len(coordinates) >= 2

\* The check its doc comment describes ("at least three points and forms a
\* closed loop").
isClosedPolygon(coordinates) ==
    /\ Len(coordinates) > 2
    /\ coordinates[1] = coordinates[Len(coordinates)]

isValidPolygon(coordinates) == Len(coordinates) > 2

\* !name: undefined or the empty string.  !coordinates: undefined (an empty
\* array is truthy).
Falsy(name) == IsUndefined(name) \/ Val(name) = ""

\* The guard testing the name for undefined only (name === undefined).
InvalidPolygonDataUndefinedOnly(name, coordinates) ==
    \/ IsUndefined(name)
    \/ IsUndefined(coordinates)
    \/ ~isValidPolygon(Val(coordinates))

InvalidPolygonData(name, coordinates) ==
    \/ Falsy(name)
    \/ IsUndefined(coordinates)
    \/ ~isValidPolygon(Val(coordinates))

(***************************************************************************)
(* State.                                                                  *)
(***************************************************************************)
VARIABLES
    table,      \* the rows of the Postgres table "polygons"
    seq,        \* last value of the SERIAL sequence behind polygons.id
    cache,      \* the redis key "polygons"
    pc,         \* per handler: the await the request is suspended at
    req,        \* per handler: the request (method, :id, body)
    row,        \* per handler: result.rows of the mutation (savedPolygon, ...)
    polygons,   \* per handler: the listing read from the Store
    res,        \* per handler: the response sent
    ver,        \* history: number of committed Store mutations
    hist,       \* history: the table after each commit
    gh,         \* history, per request: what the request has done so far
    acked,      \* history: ids whose create answered 201 / delete answered 200
    seed        \* the process running seed.ts

vars == <<table, seq, cache, pc, req, row, polygons, res, ver, hist, gh, acked,
          seed>>

Mutations == {"POST", "PUT", "DELETE"}

NoReq == [op |-> "none", id |-> TextId, name |-> Undefined,
          coordinates |-> Undefined, sessionId |-> Undefined]
\* sent: how many responses the request has been sent.
NoRes == [status |-> 0, kind |-> "none", rows |-> {}, msg |-> "", sent |-> 0]
NoSrc == [op |-> "none", id |-> 0, rows |-> {}, cv |-> 0]
\* committed/src: the request's own Store mutation, once committed (src.cv is
\* the version it produced); readVer: the version its listing was read at; set: how its
\* redis.set ended ("none": not issued); queries: Store queries it issued;
\* hit: it was answered from the cache (hitSrc, hitVer: the snapshot's
\* origin); miss: why the cache lookup fell through; storeErr: how a Store
\* query of it was rejected ("conn": no answer from the Store, connectivity
\* or timeout; "stmt": Postgres refused the statement); existed: the id of a
\* delete named a row when the request arrived.
NoGh == [committed |-> FALSE, src |-> NoSrc, readVer |-> -1,
         set |-> "none", queries |-> 0, hit |-> FALSE, hitSrc |-> NoSrc,
         hitVer |-> -1, miss |-> "none", storeErr |-> "none",
         existed |-> FALSE]
\* The key is absent: never written, or expired.
Absent == [present |-> FALSE, val |-> NotJSON, ttl |-> 0, ver |-> -1, src |-> NoSrc]

\* seed.ts before it is run.  pc: the await seedDatabase is suspended at; i:
\* the sample polygon the loop is at; rows: result.rows of its SELECT; pool,
\* redis: the process's Store pool and cache connection; ins, readVer, set,
\* failed: history (the rows it inserted, the version its SELECT read, whether
\* its redis.set was done, whether its catch block ran).
NoSeed == [pc |-> "idle", i |-> 1, rows |-> {}, pool |-> "open",
           redis |-> "open", ins |-> <<>>, readVer |-> -1, set |-> FALSE,
           failed |-> FALSE]

Init ==
    /\ seed = NoSeed
    /\ table = {}
    /\ seq = 0
    /\ cache = Absent
    /\ pc = [h \in Handlers |-> "idle"]
    /\ req = [h \in Handlers |-> NoReq]
    /\ row = [h \in Handlers |-> {}]
    /\ polygons = [h \in Handlers |-> {}]
    /\ res = [h \in Handlers |-> NoRes]
    /\ ver = 0
    /\ hist = [v \in {0} |-> {}]
    /\ gh = [h \in Handlers |-> NoGh]
    /\ acked = [created |-> {}, deleted |-> {}]

\* The state seed.ts leaves behind (seedDatabase, seed.ts:4-44): two sample
\* polygons of session S1, one of three and one of four vertices, and their
\* listing in the cache.
samplePolygons ==
    {[id |-> 1, name |-> "Polygon 1", coordinates |-> Coords3, session_id |-> S1],
     [id |-> 2, name |-> "Polygon 2", coordinates |-> Coords4, session_id |-> S1]}

InitSeeded ==
    /\ seed = NoSeed
    /\ table = samplePolygons
    /\ seq = Cardinality(samplePolygons)
    /\ cache = [present |-> TRUE, val |-> JSONstringify(samplePolygons),
                ttl |-> EX, ver |-> 0, src |-> [NoSrc EXCEPT !.op = "seed"]]
    /\ pc = [h \in Handlers |-> "idle"]
    /\ req = [h \in Handlers |-> NoReq]
    /\ row = [h \in Handlers |-> {}]
    /\ polygons = [h \in Handlers |-> {}]
    /\ res = [h \in Handlers |-> NoRes]
    /\ ver = 0
    /\ hist = [v \in {0} |-> samplePolygons]
    /\ gh = [h \in Handlers |-> NoGh]
    /\ acked = [created |-> {}, deleted |-> {}]

(***************************************************************************)
(* The Store: the statements the handlers send to Postgres.                *)
(***************************************************************************)
\* INSERT INTO polygons (name, coordinates, session_id) ... RETURNING *
\* The statement fails on a NULL or malformed session_id and on a name that
\* does not fit VARCHAR(255) (createTable, server.ts:25-30).
InsertFails(name, sessionId) ==
    \/ IsUndefined(sessionId)
    \/ ~IsUuid(Val(sessionId))
    \/ ~FitsVarchar255(Val(name))

\* The ids of a set of rows.
Ids(rows) == {r.id : r \in rows}

\* id SERIAL PRIMARY KEY: the id of a new row is the next value of the
\* sequence behind the column, whatever rows the table holds.
\* (An id computed from the rows at hand, MAX(id) + 1, in its place.)
maxIdPlusOne(s, t) ==
    IF t = {} THEN 1
    ELSE (CHOOSE i \in Ids(t) : \A j \in Ids(t) : j <= i) + 1

nextval(s, t) == s + 1

\* The coordinates travel as JSON.stringify(coordinates) into the JSONB column
\* and come back parsed.
InsertedRow(id, name, coordinates, sessionId) ==
    [id |-> id, name |-> Val(name),
     coordinates |-> JSONparse(JSONstringify(Val(coordinates))),
     session_id |-> Val(sessionId)]

\* UPDATE polygons SET name = $1, coordinates = $2 WHERE id = $3 RETURNING *
UpdateFails(id, name) == ~id.num \/ ~FitsVarchar255(Val(name))
\* The statement without its WHERE clause.
MatchingNoWhere(t, id) == t

Matching(t, id) == {r \in t : r.id = id.n}
UpdatedRow(r, name, coordinates) ==
    [r EXCEPT !.name = Val(name),
              !.coordinates = JSONparse(JSONstringify(Val(coordinates)))]

\* DELETE FROM polygons WHERE id = $1 RETURNING *
DeleteFails(id) == ~id.num

\* The listing restricted to one session (WHERE session_id = ...).
SelectSession(t) == {r \in t : r.session_id = S1}

\* SELECT * FROM polygons (no ORDER BY: the rows, in no particular order).
SelectAll(t) == t

(***************************************************************************)
(* Responses.                                                              *)
(***************************************************************************)
Json(status, kind, rows, msg) ==
    [status |-> status, kind |-> kind, rows |-> rows, msg |-> msg, sent |-> 1]
\* The field `key` of a response body, <<>> when the body has no such field.
\* { savedPolygon } (server.ts:92) is an object with the one field
\* "savedPolygon"; { error: ... } and { message: ... } have one field each;
\* the bodies of list and update are the bare array and the bare record.
Field(r, key) ==
    IF r.kind # key \/ key \in {"none", "list", "updatedPolygon"}
    THEN Undefined
    ELSE IF key \in {"error", "message"} THEN Some(r.msg)
    ELSE Some(r.rows)

InvalidPolygon == Json(400, "error", {}, "Invalid polygon data")
NotFound == Json(404, "error", {}, "Polygon not found")
InternalError == Json(500, "error", {}, "Internal Server Error")

Free(h) == pc[h] \in {"idle", "done"}
InFlight == {h \in Handlers : pc[h] \in {"insert", "update", "delete"}}
\* A mutation is admitted while the commit cap leaves room for it.
Room(I) == ver + Cardinality(InFlight) < I.cap

\* res.status(...).json(...): the request is over, its locals are dropped.
\* Responses sent to an earlier request of the handler do not count.
Sent(h) == IF Free(h) THEN 0 ELSE res[h].sent

Respond(h, r) ==
    /\ res' = [res EXCEPT ![h] = [r EXCEPT !.sent = Sent(h) + 1]]
    /\ pc' = [pc EXCEPT ![h] = "done"]
    /\ row' = [row EXCEPT ![h] = {}]
    /\ polygons' = [polygons EXCEPT ![h] = {}]

Receive(h, r) ==
    /\ Free(h)
    /\ req' = [req EXCEPT ![h] = r]
    /\ gh' = [gh EXCEPT ![h] = NoGh]

Commit(h, t, op, id, rows) ==
    /\ table' = t
    /\ ver' = ver + 1
    /\ hist' = [v \in 0..(ver + 1) |-> IF v <= ver THEN hist[v] ELSE t]
    /\ row' = [row EXCEPT ![h] = rows]
    /\ gh' = [gh EXCEPT ![h].committed = TRUE,
                        ![h].queries = @ + 1,
                        ![h].src = [op |-> op, id |-> id, rows |-> rows,
                                    cv |-> ver + 1]]

(***************************************************************************)
(* The cache: redis.get("polygons") and redis.set("polygons", v, "EX", EX).*)
(* `ok` is whether redis answered the command.                             *)
(***************************************************************************)
\* checkCache (server.ts:59-70): "hit" answers from the cache, "next" hands
\* the request to the Store path.  A failed get and a value JSON.parse
\* rejects both land in the catch, which calls next().
checkCacheOutcome(ok, c) ==
    IF ~ok THEN "next"
    ELSE IF ~c.present THEN "next"
    ELSE IF ~JSONparses(c.val) THEN "next"
    ELSE "hit"

\* Why checkCache fell through.
MissReason(ok, c) ==
    IF ~ok THEN "error" ELSE IF ~c.present THEN "absent" ELSE "parse"

\* The key after a successful set of listing l read at version v.
\* The key written with a two-hour expiry ("EX", 7200).
WrittenTwoHours(l, v, src) ==
    [present |-> TRUE, val |-> JSONstringify(l), ttl |-> 2 * EX, ver |-> v,
     src |-> src]

Written(l, v, src) ==
    [present |-> TRUE, val |-> JSONstringify(l), ttl |-> EX, ver |-> v,
     src |-> src]

\* A set that keeps the key when the key holds a listing read later.
redisSetIfNewer(c, l, v, src) ==
    IF c.present /\ c.ver > v THEN c ELSE Written(l, v, src)

\* A set that writes only when the key is absent (SET ... NX).
redisSetNX(c, l, v, src) == IF c.present THEN c ELSE Written(l, v, src)

\* A set that adds the listing to the snapshot already under the key.
redisSetMerge(c, l, v, src) ==
    Written(IF c.present /\ JSONparses(c.val) THEN JSONparse(c.val) \cup l
            ELSE l, v, src)

\* redis.set as the handlers issue it: an unconditional overwrite.
redisSet(c, l, v, src) == Written(l, v, src)

\* The response of a handler once its await of redis.set is over: the set
\* sits inside the handler's try block, so a rejected set lands in the catch.
AfterSet(ok, success) == IF ok THEN success ELSE InternalError

\* GET /polygons of the variant without a cache (server.ts:285-293): the
\* answer to a list when the Store holds the rows t.
getPolygonsUncached(t) == Json(200, "list", SelectAll(t), "")

\* How a Store query that threw was rejected.
Rejected(ok) == IF ok THEN "stmt" ELSE "conn"

\* The handler without its rows.length check.
MutationOutcomeUnchecked(ok, fails, matched) ==
    IF ~ok \/ fails THEN "error" ELSE "ok"

\* Whether the statement's result lets the handler go on to the refill
\* (server.ts:135, 163: result.rows.length === 0 answers 404).
MutationOutcome(ok, fails, matched) ==
    IF ~ok \/ fails THEN "error"
    ELSE IF matched = {} THEN "notfound"
    ELSE "ok"

(***************************************************************************)
(* POST /polygons (server.ts:77-97).                                       *)
(***************************************************************************)
PostRequest(h, I) ==
    \E b \in I.posts :
        /\ Receive(h, [op |-> "POST", id |-> TextId, name |-> b.name,
                       coordinates |-> b.coordinates,
                       sessionId |-> b.sessionId])
        /\ IF InvalidPolygonData(b.name, b.coordinates)
           THEN Respond(h, InvalidPolygon)
           ELSE /\ Room(I)
                /\ pc' = [pc EXCEPT ![h] = "insert"]
                /\ res' = [res EXCEPT ![h] = NoRes]
                /\ UNCHANGED <<row, polygons>>
        /\ UNCHANGED <<table, seq, cache, ver, hist, acked>>

PostInsert(h) ==
    /\ pc[h] = "insert"
    /\ \E ok \in BOOLEAN :
        IF ok /\ ~InsertFails(req[h].name, req[h].sessionId)
        THEN LET r == InsertedRow(nextval(seq, table), req[h].name,
                                  req[h].coordinates, req[h].sessionId)
             IN /\ Commit(h, table \cup {r}, "POST", r.id, {r})
                /\ seq' = nextval(seq, table)
                /\ pc' = [pc EXCEPT ![h] = "list"]
                /\ UNCHANGED <<cache, req, polygons, res, acked>>
        ELSE /\ Respond(h, InternalError)
             /\ gh' = [gh EXCEPT ![h].queries = @ + 1,
                                 ![h].storeErr = Rejected(ok)]
             /\ UNCHANGED <<table, seq, cache, req, ver, hist, acked>>

(***************************************************************************)
(* getPolygonsFromDB (server.ts:186-189), awaited at lines 90, 140, 167.   *)
(***************************************************************************)
\* A listing taken before the request's own mutation is visible.
getPolygonsBeforeCommit(h) ==
    /\ pc[h] = "list"
    /\ \E ok \in BOOLEAN :
        IF ok
        THEN /\ polygons' = [polygons EXCEPT ![h] = hist[gh[h].src.cv - 1]]
             /\ pc' = [pc EXCEPT ![h] = "set"]
             /\ gh' = [gh EXCEPT ![h].queries = @ + 1,
                                 ![h].readVer = gh[h].src.cv - 1]
             /\ UNCHANGED <<row, res>>
        ELSE /\ Respond(h, InternalError)
             /\ gh' = [gh EXCEPT ![h].queries = @ + 1,
                                 ![h].storeErr = "conn"]
    /\ UNCHANGED <<table, seq, cache, req, ver, hist, acked>>

getPolygonsFromDB(h) ==
    /\ pc[h] = "list"
    /\ \E ok \in BOOLEAN :
        IF ok
        THEN /\ polygons' = [polygons EXCEPT ![h] = SelectAll(table)]
             /\ pc' = [pc EXCEPT ![h] = "set"]
             /\ gh' = [gh EXCEPT ![h].queries = @ + 1, ![h].readVer = ver]
             /\ UNCHANGED <<row, res>>
        ELSE /\ Respond(h, InternalError)
             /\ gh' = [gh EXCEPT ![h].queries = @ + 1,
                                 ![h].storeErr = "conn"]
    /\ UNCHANGED <<table, seq, cache, req, ver, hist, acked>>

\* The refill and the response that follows it (server.ts:91-92, 141-142,
\* 168-169).
Refill(h, op, success) ==
    /\ pc[h] = "set"
    /\ req[h].op = op
    /\ \E ok \in BOOLEAN :
        /\ cache' = IF ok
                    THEN redisSet(cache, polygons[h], gh[h].readVer, gh[h].src)
                    ELSE cache
        /\ gh' = [gh EXCEPT ![h].set = IF ok THEN "ok" ELSE "failed"]
        /\ Respond(h, AfterSet(ok, success))
        /\ acked' = IF AfterSet(ok, success).status = 201
                    THEN [acked EXCEPT !.created = @ \cup {gh[h].src.id}]
                    ELSE IF AfterSet(ok, success).status = 200 /\ op = "DELETE"
                    THEN [acked EXCEPT !.deleted = @ \cup {gh[h].src.id}]
                    ELSE acked
    /\ UNCHANGED <<table, seq, req, ver, hist>>

PostSet(h) == Refill(h, "POST", Json(201, "savedPolygon", row[h], ""))

(***************************************************************************)
(* GET /polygons (server.ts:104-114) behind checkCache (59-70).            *)
(***************************************************************************)
GetRequest(h) ==
    /\ Receive(h, [NoReq EXCEPT !.op = "GET"])
    /\ pc' = [pc EXCEPT ![h] = "get"]
    /\ res' = [res EXCEPT ![h] = NoRes]
    /\ UNCHANGED <<table, seq, cache, row, polygons, ver, hist, acked>>

\* checkCache with a sliding expiry: a hit renews the key's time to live.
checkCacheTouch(h) ==
    /\ pc[h] = "get"
    /\ \E ok \in BOOLEAN :
        IF checkCacheOutcome(ok, cache) = "hit"
        THEN /\ Respond(h, Json(200, "list", JSONparse(cache.val), ""))
             /\ gh' = [gh EXCEPT ![h].hit = TRUE, ![h].hitSrc = cache.src,
                                 ![h].hitVer = cache.ver]
             /\ cache' = [cache EXCEPT !.ttl = EX]
        ELSE /\ pc' = [pc EXCEPT ![h] = "select"]
             /\ gh' = [gh EXCEPT ![h].miss = MissReason(ok, cache)]
             /\ UNCHANGED <<row, polygons, res, cache>>
    /\ UNCHANGED <<table, seq, req, ver, hist, acked>>

\* checkCache writing the snapshot back on a hit, under a fresh expiry.
checkCacheRefresh(h) ==
    /\ pc[h] = "get"
    /\ \E ok \in BOOLEAN :
        IF checkCacheOutcome(ok, cache) = "hit"
        THEN /\ Respond(h, Json(200, "list", JSONparse(cache.val), ""))
             /\ gh' = [gh EXCEPT ![h].hit = TRUE, ![h].hitSrc = cache.src,
                                 ![h].hitVer = cache.ver]
             /\ cache' = Written(JSONparse(cache.val), cache.ver, cache.src)
        ELSE /\ pc' = [pc EXCEPT ![h] = "select"]
             /\ gh' = [gh EXCEPT ![h].miss = MissReason(ok, cache)]
             /\ UNCHANGED <<row, polygons, res, cache>>
    /\ UNCHANGED <<table, seq, req, ver, hist, acked>>

\* checkCache without the return of line 64: a hit sends the cached listing
\* and the request goes on to the handler all the same.
checkCacheNoReturn(h) ==
    /\ pc[h] = "get"
    /\ \E ok \in BOOLEAN :
        /\ pc' = [pc EXCEPT ![h] = "select"]
        /\ IF checkCacheOutcome(ok, cache) = "hit"
           THEN /\ res' = [res EXCEPT ![h] =
                             [Json(200, "list", JSONparse(cache.val), "")
                                 EXCEPT !.sent = Sent(h) + 1]]
                /\ gh' = [gh EXCEPT ![h].hit = TRUE, ![h].hitSrc = cache.src,
                                    ![h].hitVer = cache.ver]
           ELSE /\ gh' = [gh EXCEPT ![h].miss = MissReason(ok, cache)]
                /\ UNCHANGED res
        /\ UNCHANGED <<row, polygons>>
    /\ UNCHANGED <<table, seq, cache, req, ver, hist, acked>>

\* checkCache answering a hit with one session's polygons only.
checkCacheFiltered(h) ==
    /\ pc[h] = "get"
    /\ \E ok \in BOOLEAN :
        IF checkCacheOutcome(ok, cache) = "hit"
        THEN /\ Respond(h, Json(200, "list",
                        {r \in JSONparse(cache.val) : r.session_id = S1}, ""))
             /\ gh' = [gh EXCEPT ![h].hit = TRUE, ![h].hitSrc = cache.src,
                                 ![h].hitVer = cache.ver]
        ELSE /\ pc' = [pc EXCEPT ![h] = "select"]
             /\ gh' = [gh EXCEPT ![h].miss = MissReason(ok, cache)]
             /\ UNCHANGED <<row, polygons, res>>
    /\ UNCHANGED <<table, seq, cache, req, ver, hist, acked>>

\* checkCache without its catch: a failed lookup ends the request in an error.
checkCacheThrows(h) ==
    /\ pc[h] = "get"
    /\ \E ok \in BOOLEAN :
        IF ok /\ cache.present /\ JSONparses(cache.val)
        THEN /\ Respond(h, Json(200, "list", JSONparse(cache.val), ""))
             /\ gh' = [gh EXCEPT ![h].hit = TRUE, ![h].hitSrc = cache.src,
                                 ![h].hitVer = cache.ver]
        ELSE IF ok /\ ~cache.present
        THEN /\ pc' = [pc EXCEPT ![h] = "select"]
             /\ gh' = [gh EXCEPT ![h].miss = "absent"]
             /\ UNCHANGED <<row, polygons, res>>
        ELSE /\ Respond(h, InternalError)
             /\ gh' = [gh EXCEPT ![h].miss = MissReason(ok, cache)]
    /\ UNCHANGED <<table, seq, cache, req, ver, hist, acked>>

checkCache(h) ==
    /\ pc[h] = "get"
    /\ \E ok \in BOOLEAN :
        IF checkCacheOutcome(ok, cache) = "hit"
        THEN /\ Respond(h, Json(200, "list", JSONparse(cache.val), ""))
             /\ gh' = [gh EXCEPT ![h].hit = TRUE, ![h].hitSrc = cache.src,
                                 ![h].hitVer = cache.ver]
        ELSE /\ pc' = [pc EXCEPT ![h] = "select"]
             /\ gh' = [gh EXCEPT ![h].miss = MissReason(ok, cache)]
             /\ UNCHANGED <<row, polygons, res>>
    /\ UNCHANGED <<table, seq, cache, req, ver, hist, acked>>

\* The listing of the read path, sent again after a failure.
GetSelectRetry(h) ==
    /\ pc[h] = "select"
    /\ \E ok \in BOOLEAN :
        IF ok
        THEN /\ polygons' = [polygons EXCEPT ![h] = SelectAll(table)]
             /\ pc' = [pc EXCEPT ![h] = "getset"]
             /\ gh' = [gh EXCEPT ![h].queries = @ + 1, ![h].readVer = ver]
             /\ UNCHANGED <<row, res>>
        ELSE /\ gh' = [gh EXCEPT ![h].queries = @ + 1,
                                 ![h].storeErr = "conn"]
             /\ UNCHANGED <<pc, row, polygons, res>>
    /\ UNCHANGED <<table, seq, cache, req, ver, hist, acked>>

GetSelect(h) ==
    /\ pc[h] = "select"
    /\ \E ok \in BOOLEAN :
        IF ok
        THEN /\ polygons' = [polygons EXCEPT ![h] = SelectAll(table)]
             /\ pc' = [pc EXCEPT ![h] = "getset"]
             /\ gh' = [gh EXCEPT ![h].queries = @ + 1, ![h].readVer = ver]
             /\ UNCHANGED <<row, res>>
        ELSE /\ Respond(h, InternalError)
             /\ gh' = [gh EXCEPT ![h].queries = @ + 1,
                                 ![h].storeErr = "conn"]
    /\ UNCHANGED <<table, seq, cache, req, ver, hist, acked>>

\* The read path answering without writing the listing to the cache.
GetNoSet(h) ==
    /\ pc[h] = "getset"
    /\ Respond(h, Json(200, "list", polygons[h], ""))
    /\ UNCHANGED <<table, seq, cache, req, ver, hist, gh, acked>>

GetSet(h) ==
    /\ pc[h] = "getset"
    /\ \E ok \in BOOLEAN :
        /\ cache' = IF ok
                    THEN redisSet(cache, polygons[h], gh[h].readVer,
                                  [NoSrc EXCEPT !.op = "GET"])
                    ELSE cache
        /\ gh' = [gh EXCEPT ![h].set = IF ok THEN "ok" ELSE "failed"]
        /\ Respond(h, AfterSet(ok, Json(200, "list", polygons[h], "")))
    /\ UNCHANGED <<table, seq, req, ver, hist, acked>>

(***************************************************************************)
(* PUT /polygons/:id (server.ts:121-147).                                  *)
(***************************************************************************)
\* An update that looks the id up before it validates the body: an unknown
\* id is answered 404 after one Store query, whatever the body.
PutRequestExistenceFirst(h, I) ==
    \E id \in I.ids, b \in I.puts :
        /\ Free(h)
        /\ req' = [req EXCEPT ![h] = [op |-> "PUT", id |-> id, name |-> b.name,
                                      coordinates |-> b.coordinates,
                                      sessionId |-> b.sessionId]]
        /\ IF id.num /\ Matching(table, id) = {}
           THEN /\ Respond(h, NotFound)
                /\ gh' = [gh EXCEPT ![h] = [NoGh EXCEPT !.queries = 1]]
           ELSE /\ gh' = [gh EXCEPT ![h] = NoGh]
                /\ IF InvalidPolygonData(b.name, b.coordinates)
                   THEN Respond(h, InvalidPolygon)
                   ELSE /\ Room(I)
                        /\ pc' = [pc EXCEPT ![h] = "update"]
                        /\ res' = [res EXCEPT ![h] = NoRes]
                        /\ UNCHANGED <<row, polygons>>
        /\ UNCHANGED <<table, seq, cache, ver, hist, acked>>

PutRequest(h, I) ==
    \E id \in I.ids, b \in I.puts :
        /\ Receive(h, [op |-> "PUT", id |-> id, name |-> b.name,
                       coordinates |-> b.coordinates,
                       sessionId |-> b.sessionId])
        /\ IF InvalidPolygonData(b.name, b.coordinates)
           THEN Respond(h, InvalidPolygon)
           ELSE /\ Room(I)
                /\ pc' = [pc EXCEPT ![h] = "update"]
                /\ res' = [res EXCEPT ![h] = NoRes]
                /\ UNCHANGED <<row, polygons>>
        /\ UNCHANGED <<table, seq, cache, ver, hist, acked>>

\* An update that also stores the sessionId of the body, when there is one.
PutUpdateWithSession(h) ==
    /\ pc[h] = "update"
    /\ \E ok \in BOOLEAN :
        LET id == req[h].id
            old == Matching(table, id)
            new == {[UpdatedRow(r, req[h].name, req[h].coordinates)
                        EXCEPT !.session_id =
                            IF IsUndefined(req[h].sessionId) THEN @
                            ELSE Val(req[h].sessionId)] : r \in old}
            out == MutationOutcome(ok, UpdateFails(id, req[h].name), old)
        IN IF out = "ok"
           THEN /\ Commit(h, (table \ old) \cup new, "PUT", id.n, new)
                /\ pc' = [pc EXCEPT ![h] = "list"]
                /\ UNCHANGED <<seq, cache, req, polygons, res, acked>>
           ELSE /\ Respond(h, IF out = "notfound" THEN NotFound ELSE InternalError)
                /\ gh' = [gh EXCEPT ![h].queries = @ + 1,
                                    ![h].storeErr = IF out = "error"
                                                    THEN Rejected(ok)
                                                    ELSE "none"]
                /\ UNCHANGED <<table, seq, cache, req, ver, hist, acked>>

PutUpdate(h) ==
    /\ pc[h] = "update"
    /\ \E ok \in BOOLEAN :
        LET id == req[h].id
            old == Matching(table, id)
            new == {UpdatedRow(r, req[h].name, req[h].coordinates) : r \in old}
            out == MutationOutcome(ok, UpdateFails(id, req[h].name), old)
        IN IF out = "ok"
           THEN /\ Commit(h, (table \ old) \cup new, "PUT", id.n, new)
                /\ pc' = [pc EXCEPT ![h] = "list"]
                /\ UNCHANGED <<seq, cache, req, polygons, res, acked>>
           ELSE /\ Respond(h, IF out = "notfound" THEN NotFound ELSE InternalError)
                /\ gh' = [gh EXCEPT ![h].queries = @ + 1,
                                    ![h].storeErr = IF out = "error"
                                                    THEN Rejected(ok)
                                                    ELSE "none"]
                /\ UNCHANGED <<table, seq, cache, req, ver, hist, acked>>

\* An update that answers without writing the listing to the cache.
PutSetNoRefill(h) ==
    /\ pc[h] = "set"
    /\ req[h].op = "PUT"
    /\ Respond(h, Json(200, "updatedPolygon", row[h], ""))
    /\ UNCHANGED <<table, seq, cache, req, ver, hist, gh, acked>>

PutSet(h) == Refill(h, "PUT", Json(200, "updatedPolygon", row[h], ""))

(***************************************************************************)
(* DELETE /polygons/:id (server.ts:154-174).                               *)
(***************************************************************************)
DeleteRequest(h, I) ==
    \E id \in I.ids :
        /\ Free(h)
        /\ req' = [req EXCEPT ![h] = [NoReq EXCEPT !.op = "DELETE", !.id = id]]
        /\ gh' = [gh EXCEPT ![h] = [NoGh EXCEPT !.existed =
                                        Matching(table, id) # {}]]
        /\ Room(I)
        /\ pc' = [pc EXCEPT ![h] = "delete"]
        /\ res' = [res EXCEPT ![h] = NoRes]
        /\ UNCHANGED <<table, seq, cache, row, polygons, ver, hist, acked>>

\* A delete that answers 200 without looking at the rows the statement
\* returned.
DeleteQueryAlwaysDeleted(h) ==
    /\ pc[h] = "delete"
    /\ \E ok \in BOOLEAN :
        LET id == req[h].id
            old == Matching(table, id)
        IN IF ok /\ ~DeleteFails(id)
           THEN /\ Commit(h, table \ old, "DELETE", id.n, old)
                /\ pc' = [pc EXCEPT ![h] = "list"]
                /\ UNCHANGED <<seq, cache, req, polygons, res, acked>>
           ELSE /\ Respond(h, InternalError)
                /\ gh' = [gh EXCEPT ![h].queries = @ + 1,
                                    ![h].storeErr = Rejected(ok)]
                /\ UNCHANGED <<table, seq, cache, req, ver, hist, acked>>

DeleteQuery(h) ==
    /\ pc[h] = "delete"
    /\ \E ok \in BOOLEAN :
        LET id == req[h].id
            old == Matching(table, id)
            out == MutationOutcome(ok, DeleteFails(id), old)
        IN IF out = "ok"
           THEN /\ Commit(h, table \ old, "DELETE", id.n, old)
                /\ pc' = [pc EXCEPT ![h] = "list"]
                /\ UNCHANGED <<seq, cache, req, polygons, res, acked>>
           ELSE /\ Respond(h, IF out = "notfound" THEN NotFound ELSE InternalError)
                /\ gh' = [gh EXCEPT ![h].queries = @ + 1,
                                    ![h].storeErr = IF out = "error"
                                                    THEN Rejected(ok)
                                                    ELSE "none"]
                /\ UNCHANGED <<table, seq, cache, req, ver, hist, acked>>

\* A delete that invalidates the key (redis.del) instead of refilling it.
DeleteInvalidate(h) ==
    /\ pc[h] = "set"
    /\ req[h].op = "DELETE"
    /\ \E ok \in BOOLEAN :
        LET success == Json(200, "message", {}, "Polygon deleted successfully")
        IN /\ cache' = IF ok THEN Absent ELSE cache
           /\ gh' = [gh EXCEPT ![h].set = IF ok THEN "ok" ELSE "failed"]
           /\ Respond(h, AfterSet(ok, success))
           /\ acked' = IF ok
                       THEN [acked EXCEPT !.deleted = @ \cup {gh[h].src.id}]
                       ELSE acked
    /\ UNCHANGED <<table, seq, req, ver, hist>>

DeleteSet(h) ==
    Refill(h, "DELETE", Json(200, "message", {}, "Polygon deleted successfully"))

(***************************************************************************)
(* The environment.                                                        *)
(***************************************************************************)
\* Time passes: redis counts the key's expiry down and drops the key at 0.
Tick ==
    /\ cache.present
    /\ cache' = IF cache.ttl > Quantum
                THEN [cache EXCEPT !.ttl = @ - Quantum]
                ELSE Absent
    /\ UNCHANGED <<table, seq, pc, req, row, polygons, res, ver, hist, gh, acked,
                   seed>>

\* The process dies: the requests in flight are lost without a response; the
\* Store and the cache live on.
Crash ==
    /\ \E h \in Handlers : ~Free(h)
    /\ pc' = [h \in Handlers |-> IF Free(h) THEN pc[h] ELSE "idle"]
    /\ req' = [h \in Handlers |-> IF Free(h) THEN req[h] ELSE NoReq]
    /\ row' = [h \in Handlers |-> {}]
    /\ polygons' = [h \in Handlers |-> {}]
    /\ gh' = [h \in Handlers |-> IF Free(h) THEN gh[h] ELSE NoGh]
    /\ UNCHANGED <<table, seq, cache, res, ver, hist, acked, seed>>

\* Another client of the same redis stores a value that is not JSON.
ForeignSet ==
    /\ cache' = [present |-> TRUE, val |-> NotJSON, ttl |-> EX, ver |-> -1,
                 src |-> [NoSrc EXCEPT !.op = "foreign"]]
    /\ cache' # cache
    /\ UNCHANGED <<table, seq, pc, req, row, polygons, res, ver, hist, gh, acked,
                   seed>>

(***************************************************************************)
(* seed.ts: seedDatabase (4-44) and its call (46-48).                      *)
(***************************************************************************)
\* The sample polygons in the order of the array (seed.ts:5-25).
sampleList ==
    <<[name |-> "Polygon 1", coordinates |-> Coords3, session_id |-> S1],
      [name |-> "Polygon 2", coordinates |-> Coords4, session_id |-> S1]>>

\* The source recorded with a snapshot the seed script wrote.
SeedSrc == [NoSrc EXCEPT !.op = "seed"]

\* The catch block that leaves the process without running the finally
\* block.
SeedCaughtExit(s) == [s EXCEPT !.pc = "exit", !.failed = TRUE]

\* An await inside the try block threw: the catch block logs the error
\* (seed.ts:38-39) and control goes on to the finally block.
SeedCaught(s) == [s EXCEPT !.pc = "end", !.failed = TRUE]

\* `npm run seed`: the process starts and enters the loop.
SeedStart ==
    /\ seed.pc = "idle"
    /\ seed' = [seed EXCEPT !.pc = "insert"]
    /\ UNCHANGED <<table, seq, cache, pc, req, row, polygons, res, ver, hist,
                   gh, acked>>

\* One turn of the loop: INSERT of the sample polygon the loop is at
\* (seed.ts:28-33).
SeedInsert ==
    /\ seed.pc = "insert"
    /\ \E ok \in BOOLEAN :
        IF ok
        THEN LET p == sampleList[seed.i]
                 r == InsertedRow(nextval(seq, table), Some(p.name),
                                  Some(p.coordinates), Some(p.session_id))
             IN /\ table' = table \cup {r}
                /\ seq' = nextval(seq, table)
                /\ ver' = ver + 1
                /\ hist' = [v \in 0..(ver + 1) |->
                               IF v <= ver THEN hist[v] ELSE table \cup {r}]
                /\ seed' = [seed EXCEPT
                               !.i = @ + 1,
                               !.ins = Append(@, r),
                               !.pc = IF seed.i = Len(sampleList)
                                      THEN "select" ELSE "insert"]
        ELSE /\ seed' = SeedCaught(seed)
             /\ UNCHANGED <<table, seq, ver, hist>>
    /\ UNCHANGED <<cache, pc, req, row, polygons, res, gh, acked>>

\* SELECT * FROM polygons (seed.ts:35).
SeedSelect ==
    /\ seed.pc = "select"
    /\ \E ok \in BOOLEAN :
        seed' = IF ok
                THEN [seed EXCEPT !.rows = SelectAll(table), !.readVer = ver,
                                  !.pc = "set"]
                ELSE SeedCaught(seed)
    /\ UNCHANGED <<table, seq, cache, pc, req, row, polygons, res, ver, hist,
                   gh, acked>>

\* redis.set("polygons", JSON.stringify(result.rows), "EX", 3600)
\* (seed.ts:36); the try block ends after it.
SeedSet ==
    /\ seed.pc = "set"
    /\ \E ok \in BOOLEAN :
        IF ok
        THEN /\ cache' = redisSet(cache, seed.rows, seed.readVer, SeedSrc)
             /\ seed' = [seed EXCEPT !.set = TRUE, !.pc = "end"]
        ELSE /\ seed' = SeedCaught(seed)
             /\ UNCHANGED cache
    /\ UNCHANGED <<table, seq, pc, req, row, polygons, res, ver, hist, gh, acked>>

\* finally: await pool.end() (seed.ts:41).
SeedPoolEnd ==
    /\ seed.pc = "end"
    /\ seed' = [seed EXCEPT !.pool = "ended", !.pc = "disconnect"]
    /\ UNCHANGED <<table, seq, cache, pc, req, row, polygons, res, ver, hist,
                   gh, acked>>

\* finally: redis.disconnect() (seed.ts:42).
SeedDisconnect ==
    /\ seed.pc = "disconnect"
    /\ seed' = [seed EXCEPT !.redis = "closed", !.pc = "exit"]
    /\ UNCHANGED <<table, seq, cache, pc, req, row, polygons, res, ver, hist,
                   gh, acked>>

\* .then(() => process.exit()) (seed.ts:47).
SeedExit ==
    /\ seed.pc = "exit"
    /\ seed' = [seed EXCEPT !.pc = "exited"]
    /\ UNCHANGED <<table, seq, cache, pc, req, row, polygons, res, ver, hist,
                   gh, acked>>

(***************************************************************************)
(* Specifications.                                                         *)
(***************************************************************************)
\* The steps of the requests; none of them touches the seed process.
Step(h) ==
    \/ PostInsert(h) /\ UNCHANGED seed
    \/ getPolygonsFromDB(h) /\ UNCHANGED seed
    \/ PostSet(h) /\ UNCHANGED seed
    \/ checkCache(h) /\ UNCHANGED seed
    \/ GetSelect(h) /\ UNCHANGED seed
    \/ GetSet(h) /\ UNCHANGED seed
    \/ PutUpdate(h) /\ UNCHANGED seed
    \/ PutSet(h) /\ UNCHANGED seed
    \/ DeleteQuery(h) /\ UNCHANGED seed
    \/ DeleteSet(h) /\ UNCHANGED seed

Arrive(h, I) ==
    \/ PostRequest(h, I) /\ UNCHANGED seed
    \/ GetRequest(h) /\ UNCHANGED seed
    \/ PutRequest(h, I) /\ UNCHANGED seed
    \/ DeleteRequest(h, I) /\ UNCHANGED seed

\* One request at a time.
Next ==
    \/ Arrive(1, SeqInputs)
    \/ Step(1)
    \/ Tick

Spec == Init /\ [][Next]_vars

\* Requests interleave at their awaits; the process may die.
NextConc ==
    \/ \E h \in Handlers : Arrive(h, ConcInputs) \/ Step(h)
    \/ Tick
    \/ Crash

SpecConc == Init /\ [][NextConc]_vars

\* Interleaved requests on the seeded Store: two mutations of a sample
\* polygon can be in flight together.
SpecConcSeeded == InitSeeded /\ [][NextConc]_vars

\* Every call a request awaits returns or throws in the end, and time passes.
Fairness ==
    /\ WF_vars(Tick)
    /\ \A h \in Handlers : WF_vars(Step(h))

SpecFair == SpecConc /\ Fairness

\* Requests interleave and the process stays up; every call a request
\* awaits returns or throws in the end.
NextLive ==
    \/ \E h \in Handlers : Arrive(h, ConcInputs) \/ Step(h)
    \/ Tick

SpecLive == Init /\ [][NextLive]_vars /\ \A h \in Handlers : WF_vars(Step(h))

\* One request at a time, over every combination of body fields, on the
\* seeded Store.
NextWide ==
    \/ Arrive(1, WideInputs)
    \/ Step(1)
    \/ Tick

SpecWide == InitSeeded /\ [][NextWide]_vars

\* In this step no call to the Store or to redis went unanswered or threw
\* for want of a connection.
NoFailure ==
    \A h \in Handlers :
        /\ gh'[h].storeErr # "conn"
        /\ gh'[h].set # "failed"
        /\ gh'[h].miss # "error"

\* The steps of a request whose calls are all answered.
StepHealthy(h) ==
    \/ PostInsert(h) /\ NoFailure /\ UNCHANGED seed
    \/ getPolygonsFromDB(h) /\ NoFailure /\ UNCHANGED seed
    \/ PostSet(h) /\ NoFailure /\ UNCHANGED seed
    \/ checkCache(h) /\ NoFailure /\ UNCHANGED seed
    \/ GetSelect(h) /\ NoFailure /\ UNCHANGED seed
    \/ GetSet(h) /\ NoFailure /\ UNCHANGED seed
    \/ PutUpdate(h) /\ NoFailure /\ UNCHANGED seed
    \/ PutSet(h) /\ NoFailure /\ UNCHANGED seed
    \/ DeleteQuery(h) /\ NoFailure /\ UNCHANGED seed
    \/ DeleteSet(h) /\ NoFailure /\ UNCHANGED seed

\* One request at a time, the Store and redis always answering.
NextHealthy ==
    \/ Arrive(1, SeqInputs)
    \/ StepHealthy(1)
    \/ Tick

SpecHealthy == Init /\ [][NextHealthy]_vars

\* The seed script, run once at any moment next to a server that takes one
\* request at a time.
NextSeed ==
    \/ Arrive(1, SeedInputs)
    \/ Step(1)
    \/ Tick
    \/ SeedStart \/ SeedInsert \/ SeedSelect \/ SeedSet
    \/ SeedPoolEnd \/ SeedDisconnect \/ SeedExit

SpecSeed == Init /\ [][NextSeed]_vars

\* One request at a time, next to another writer of the redis key.
NextForeign ==
    \/ Arrive(1, SeqInputs)
    \/ Step(1)
    \/ Tick
    \/ ForeignSet

SpecForeign == Init /\ [][NextForeign]_vars

(***************************************************************************)
(* Claims.                                                                 *)
(***************************************************************************)
Done(h) == pc[h] = "done"
SuccessOf(op) == IF op = "POST" THEN 201 ELSE 200

\* C1: a create, update or delete whose Store mutation committed and whose
\* redis.set of the refill then failed still answers success (201 / 200).
C1_RefillFailureStillSuccess ==
    \A h \in Handlers :
        (Done(h) /\ req[h].op \in Mutations /\ gh[h].committed
            /\ gh[h].set = "failed")
        => res[h].status = SuccessOf(req[h].op)

\* C2: a list that missed the cache and read the listing from the Store
\* answers 200 with that listing whether or not its redis.set succeeded.
C2_MissAnswersListing ==
    \A h \in Handlers :
        (Done(h) /\ req[h].op = "GET" /\ ~gh[h].hit /\ gh[h].readVer >= 0)
        => /\ res[h].status = 200
           /\ res[h].rows = hist[gh[h].readVer]

\* C3: no partial success: a create, update or delete that answers 201/200
\* has committed its mutation, and one that answers 400, 404 or 500 has
\* committed nothing to the Store.
C3_NoPartialSuccess ==
    \A h \in Handlers :
        (Done(h) /\ req[h].op \in Mutations)
        => /\ res[h].status \in {200, 201} => gh[h].committed
           /\ res[h].status \in {400, 404, 500}
                => ~gh[h].committed

\* C4: a list whose cache lookup failed (redis.get threw, or the cached value
\* did not parse) goes on exactly as after a miss: it is handed to the Store
\* path, and any response it gets is sent by that path after a Store query.
C4_LookupFailureIsMiss ==
    \A h \in Handlers :
        gh[h].miss # "none"
        => /\ ~gh[h].hit
           /\ \/ pc[h] \in {"select", "getset"}
              \/ Done(h) /\ gh[h].queries = 1
           /\ Done(h) /\ gh[h].readVer >= 0 /\ gh[h].set = "ok"
                => res[h].status = 200 /\ res[h].rows = hist[gh[h].readVer]

\* A list found a value that is not JSON in the cache and answered 200 from
\* the Store.
C4_Witness ==
    \E h \in Handlers :
        /\ Done(h) /\ req[h].op = "GET" /\ gh[h].miss = "parse"
        /\ res[h].status = 200 /\ res[h].rows = table /\ table # {}

\* The same after a redis.get that threw.
C4_WitnessGetThrew ==
    \E h \in Handlers :
        /\ Done(h) /\ req[h].op = "GET" /\ gh[h].miss = "error"
        /\ res[h].status = 200 /\ res[h].rows = table /\ table # {}

\* C5: each mutation request writes its own post-mutation listing to the one
\* shared key and the last write wins: whatever the key held, a successful
\* redis.set leaves exactly the writer's listing under a fresh expiry.
C5_LastRefillWins ==
    [][\A h \in Handlers :
          (pc[h] \in {"set", "getset"} /\ Done(h)' /\ gh'[h].set = "ok")
          => /\ cache'.present
             /\ JSONparse(cache'.val) = polygons[h]
             /\ cache'.ver = gh[h].readVer
             /\ cache'.ttl = EX]_vars

\* Two mutation requests both committed and both answered success, nothing is
\* in flight, and the cached snapshot lacks the record one of them created,
\* a record the Store holds.
C5_Witness ==
    \E h1, h2 \in Handlers :
        /\ h1 # h2
        /\ \A h \in Handlers : Free(h)
        /\ \A h \in {h1, h2} :
              /\ Done(h) /\ req[h].op \in Mutations /\ gh[h].committed
              /\ res[h].status = SuccessOf(req[h].op) /\ gh[h].set = "ok"
        /\ req[h2].op = "POST"
        /\ gh[h2].src.rows \subseteq table
        /\ cache.present
        /\ gh[h2].src.id \notin Ids(JSONparse(cache.val))
        /\ cache.ver < ver

\* C6: after N acknowledged creates and M acknowledged deletes, a list
\* answers exactly the polygons whose ids were created and not deleted,
\* from the cache and from the Store alike.
C6_ListIsCreatedMinusDeleted ==
    \A h \in Handlers :
        (Done(h) /\ req[h].op = "GET" /\ res[h].status = 200)
        => Ids(res[h].rows) = acked.created \ acked.deleted

\* What a listing shows of a committed mutation.
Reflects(rows, src) ==
    CASE src.op = "POST" -> src.rows \subseteq rows
      [] src.op = "PUT" -> src.rows \subseteq rows
                           /\ Cardinality({r \in rows : r.id = src.id}) = 1
      [] src.op = "DELETE" -> src.id \notin Ids(rows)
      [] OTHER -> TRUE

\* C7: a list answered from a snapshot that a mutation request's own refill
\* wrote (no cache write after it) shows a Store state no older than that
\* mutation; when no other mutation came in between it shows the created
\* record, the updated fields, or no record of the deleted id.
C7_HitAfterOwnRefillReflects ==
    \A h \in Handlers :
        (Done(h) /\ req[h].op = "GET" /\ gh[h].hit
            /\ gh[h].hitSrc.op \in Mutations)
        => /\ gh[h].hitVer >= gh[h].hitSrc.cv
           /\ res[h].rows = hist[gh[h].hitVer]
           /\ gh[h].hitVer = gh[h].hitSrc.cv
                => Reflects(res[h].rows, gh[h].hitSrc)

\* A list hit the snapshot an update's refill wrote and shows the updated row.
C7_Witness ==
    \E h \in Handlers :
        /\ Done(h) /\ req[h].op = "GET" /\ gh[h].hit
        /\ gh[h].hitSrc.op = "PUT"
        /\ \E r \in res[h].rows :
              r.id = gh[h].hitSrc.id /\ r.name = "B" /\ r.coordinates = Coords4

\* C9, state part: a mutation request issues redis.set only after its own
\* Store mutation committed and returned rows; a request answered 400 or 404,
\* or 500 by the Store mutation, has issued no redis.set.
C9_RefillOnlyAfterCommit ==
    \A h \in Handlers :
        req[h].op \in Mutations
        => /\ gh[h].set # "none"
                => gh[h].committed /\ gh[h].src.rows # {} /\ gh[h].readVer >= gh[h].src.cv
           /\ Done(h) /\ res[h].status \in {400, 404} => gh[h].set = "none"
           /\ Done(h) /\ ~gh[h].committed => gh[h].set = "none"

\* C9, step part: the step that answers 400 or 404, and the step of a failed
\* Store mutation, leave the cache key as it was (value and expiry).
C9_FailureLeavesCache ==
    \A h \in Handlers :
        (~Done(h) /\ Done(h)' /\ req'[h].op \in Mutations
            /\ (res'[h].status \in {400, 404} \/ ~gh'[h].committed))
        => cache' = cache

\* C9: within one create, update or delete the refill comes only after the
\* Store mutation succeeded; on 400, 404 and on a failed Store mutation no
\* cache write happens and the key keeps its value and expiry.
C9_NoRefillWithoutMutation ==
    []C9_RefillOnlyAfterCommit /\ [][C9_FailureLeavesCache]_vars

\* An update of an unknown id answered 404 while the key held a snapshot
\* that has since aged, untouched.
C9_Witness ==
    \E h \in Handlers :
        /\ Done(h) /\ req[h].op = "PUT" /\ res[h].status = 404
        /\ gh[h].set = "none"
        /\ cache.present /\ cache.ttl < EX

\* C10, state part: a list answered from the cache answers 200 and has sent
\* no Store query and no redis.set.
C10_HitSkipsStore ==
    \A h \in Handlers :
        (Done(h) /\ req[h].op = "GET" /\ gh[h].hit)
        => /\ res[h].status = 200 /\ res[h].kind = "list"
           /\ gh[h].queries = 0 /\ gh[h].set = "none"

\* C10, step part: the lookup answers with the whole parsed snapshot, which
\* is unexpired, and a lookup that redis answered falls through only when
\* the key is absent.
C10_HitStep ==
    \A h \in Handlers :
        /\ (pc[h] = "get" /\ Done(h)')
             => /\ cache.present /\ cache.ttl > 0
                /\ res'[h].rows = JSONparse(cache.val)
                /\ UNCHANGED <<table, cache>>
        /\ (pc[h] = "get" /\ pc'[h] = "select" /\ gh'[h].miss # "error")
             => ~cache.present

\* C10: on a hit the response is exactly the cached snapshot, unfiltered,
\* with status 200 and without any Store query.
C10_HitReturnsSnapshot ==
    []C10_HitSkipsStore /\ [][C10_HitStep]_vars

\* A list was answered from the cache with polygons of two sessions.
C10_Witness ==
    \E h \in Handlers :
        /\ Done(h) /\ req[h].op = "GET" /\ gh[h].hit /\ res[h].status = 200
        /\ {r.session_id : r \in res[h].rows} = {S1, S2}

\* Nothing that is served or about to be written predates commit number v.
Fresh(v) ==
    /\ cache.present => cache.ver >= v
    /\ \A h \in Handlers : pc[h] \in {"set", "getset"} => gh[h].readVer >= v

\* C8, expiry part: the key's time to live never exceeds EX and grows only
\* in a step that issues redis.set; a hit does not renew it.
C8_ExpiryOnlyBySet ==
    /\ cache'.present => cache'.ttl \in 1..EX
    /\ (cache.present /\ cache'.present /\ cache'.ttl > cache.ttl)
         => \E h \in Handlers : pc[h] \in {"set", "getset"} /\ gh'[h].set = "ok"

\* C8, once fresh: after commit v, once no snapshot older than v is cached
\* or on its way to the cache, none ever is again.
C8_FreshStays ==
    \A v \in 1..MaxConcCommits : (ver >= v /\ Fresh(v)) => Fresh(v)'

\* C8: every committed mutation is reflected by list in the end: a snapshot
\* that misses it (failed refill, crash before the refill, overwritten by a
\* concurrent refill) is dropped when its time to live runs out or is
\* overwritten, and its time to live is never renewed without a rewrite.
C8_EventuallyReflected ==
    /\ \A v \in 1..MaxConcCommits : (ver >= v) ~> Fresh(v)
    /\ [][C8_FreshStays /\ C8_ExpiryOnlyBySet]_vars

\* The cached snapshot misses a committed mutation while nothing is in
\* flight: only expiry or a later write can replace it.
C8_Witness ==
    /\ cache.present /\ cache.ver < ver /\ cache.ttl < EX
    /\ \A h \in Handlers : Free(h)
    /\ JSONparse(cache.val) # table

\* The request of handler h has just been taken up or moved on in this step.
Moved(h) == <<pc[h], req[h], res[h], gh[h]>> # <<pc[h], req[h], res[h], gh[h]>>'

\* The request of handler h got the result of a Store query in this step.
Queried(h) == gh'[h].queries = gh[h].queries + 1

\* A body with the name missing or empty, or with coordinates missing or of
\* length 2 or less.
BadBody(r) ==
    \/ IsUndefined(r.name) \/ Val(r.name) = ""
    \/ IsUndefined(r.coordinates) \/ Len(Val(r.coordinates)) <= 2

\* C11, state part: a create or update with such a body is answered 400
\* "Invalid polygon data", whatever its other fields, and has sent no Store
\* query and no redis.set.
C11_BadBodyAnswered400 ==
    \A h \in Handlers :
        (Done(h) /\ req[h].op \in {"POST", "PUT"} /\ BadBody(req[h]))
        => /\ res[h] = InvalidPolygon
           /\ gh[h].queries = 0 /\ gh[h].set = "none" /\ ~gh[h].committed

\* C11, step part: the step that answers such a request leaves the table,
\* the id sequence and the cache key as they were.
C11_BadBodyStep ==
    \A h \in Handlers :
        (Moved(h) /\ Done(h)' /\ req'[h].op \in {"POST", "PUT"}
            /\ BadBody(req'[h]))
        => UNCHANGED <<table, seq, cache, ver>>

\* C11: create and update with an empty or missing name, or with coordinates
\* missing or of length <= 2, fail with 400 "Invalid polygon data" regardless
\* of the other fields, and change neither the Store nor the cache.
C11_ValidationError == []C11_BadBodyAnswered400 /\ [][C11_BadBodyStep]_vars

\* An update with a good name, two vertices and a sessionId was answered 400
\* while the Store held a polygon and the cache a snapshot.
C11_Witness ==
    \E h \in Handlers :
        /\ Done(h) /\ req[h].op = "PUT"
        /\ req[h].name = Some("B") /\ req[h].coordinates = Some(Coords2)
        /\ req[h].sessionId = Some(S2)
        /\ res[h] = InvalidPolygon
        /\ table # {} /\ cache.present

\* C12, state part: an update with a valid body that the Store answered and
\* that committed nothing is answered 404 "Polygon not found" after its one
\* Store query.
C12_UncommittedUpdateIs404 ==
    \A h \in Handlers :
        (Done(h) /\ req[h].op = "PUT" /\ ~BadBody(req[h])
            /\ gh[h].storeErr = "none" /\ ~gh[h].committed)
        => res[h] = NotFound /\ gh[h].queries = 1 /\ gh[h].set = "none"

\* C12, step part: the UPDATE of an id the table does not hold (never
\* assigned, or deleted) leaves the table as it was, row for row, and ends
\* the request; when the Store answered it, the answer is 404.
C12_UnknownIdStep ==
    \A h \in Handlers :
        (pc[h] = "update" /\ Queried(h) /\ req[h].id.n \notin Ids(table))
        => /\ UNCHANGED <<table, seq, ver>>
           /\ Done(h)' /\ ~gh'[h].committed
           /\ gh'[h].storeErr = "none" => res'[h] = NotFound

C12_WitnessNeverCreated ==
    \E h \in Handlers :
        /\ Done(h) /\ req[h].op = "PUT" /\ res[h] = NotFound
        /\ req[h].id.n > seq /\ table # {}

\* C13: a delete of an existing id (its DELETE removed the row) answers 200
\* with the confirmation message and the id is in no later listing of the
\* Store; a delete of an id the table does not hold, such as the same id a
\* second time, answers 404 and has committed nothing.
C13_DeleteOnceThen404 ==
    \A h \in Handlers :
        (Done(h) /\ req[h].op = "DELETE" /\ gh[h].storeErr = "none")
        => IF gh[h].committed
           THEN /\ res[h] = Json(200, "message", {},
                                 "Polygon deleted successfully")
                /\ gh[h].src.id \notin Ids(table)
           ELSE res[h] = NotFound /\ gh[h].set = "none"

\* Every id the table has held up to commit number v.
IdsUpTo(v) == UNION {Ids(hist[w]) : w \in 0..v}

\* C14, state part: a create answered 201 has persisted the one record it
\* answers with; the record carries the request's sessionId, name and
\* coordinates, and its id was in no earlier state of the table.
C14_CreatedRecord ==
    \A h \in Handlers :
        (Done(h) /\ req[h].op = "POST" /\ res[h].status = 201)
        => /\ gh[h].committed
           /\ \E r \in hist[gh[h].src.cv] :
                 /\ res[h].rows = {r}
                 /\ r.session_id = Val(req[h].sessionId)
                 /\ r.name = Val(req[h].name)
                 /\ r.coordinates = Val(req[h].coordinates)
                 /\ r.id \notin IdsUpTo(gh[h].src.cv - 1)

\* C14, step part: the INSERT adds exactly one row, under an id the table
\* has never held, deleted rows included, and touches no other row.
C14_InsertStep ==
    \A h \in Handlers :
        (pc[h] = "insert" /\ gh'[h].committed)
        => \E r \in table' :
              /\ r.id \notin IdsUpTo(ver)
              /\ r.session_id = Val(req[h].sessionId)
              /\ table' = table \cup {r}

\* C14: every successful create persists a new record whose sessionId is the
\* request's and whose id differs from every id assigned before, the ids of
\* deleted polygons included.
C14_FreshIdAndSession == []C14_CreatedRecord /\ [][C14_InsertStep]_vars

\* A create of session S2 was answered 201 with id 2 after the polygon with
\* id 1 had been deleted.
C14_Witness ==
    \E h \in Handlers :
        /\ Done(h) /\ req[h].op = "POST" /\ res[h].status = 201
        /\ req[h].sessionId = Some(S2)
        /\ Ids(res[h].rows) = {2} /\ Ids(table) = {2}
        /\ 1 \in IdsUpTo(ver)

\* C15, state part: an update answered 200 answers with the one record it
\* wrote: the request's name and coordinates (same vertices, same order)
\* under the id and the sessionId the record had before, whatever sessionId
\* the body carried; every other record is as it was before the update.
C15_UpdatedRecord ==
    \A h \in Handlers :
        (Done(h) /\ req[h].op = "PUT" /\ res[h].status = 200)
        => /\ gh[h].committed /\ res[h].kind = "updatedPolygon"
           /\ \E r \in hist[gh[h].src.cv], old \in hist[gh[h].src.cv - 1] :
                 /\ res[h].rows = {r}
                 /\ r.name = Val(req[h].name)
                 /\ r.coordinates = Val(req[h].coordinates)
                 /\ r.id = req[h].id.n /\ r.id = old.id
                 /\ r.session_id = old.session_id
                 /\ hist[gh[h].src.cv] \ {r} = hist[gh[h].src.cv - 1] \ {old}

\* C15, step part: the UPDATE that matches a row rewrites that row's name
\* and coordinates and nothing else in the table, and assigns no id.
C15_UpdateStep ==
    \A h \in Handlers :
        (pc[h] = "update" /\ gh'[h].committed)
        => /\ \E old \in table :
                 /\ old.id = req[h].id.n
                 /\ table' = (table \ {old}) \cup
                        {[id |-> old.id, name |-> Val(req[h].name),
                          coordinates |-> Val(req[h].coordinates),
                          session_id |-> old.session_id]}
           /\ Cardinality(table') = Cardinality(table)
           /\ seq' = seq

\* C15: a successful update answers 200 with the updated polygon: name and
\* coordinates as requested, id and sessionId as before; a sessionId in the
\* body is ignored and no other record changes.
C15_UpdateKeepsIdentity == []C15_UpdatedRecord /\ [][C15_UpdateStep]_vars

\* An update whose body carried sessionId S2 was answered 200 with a record
\* still tagged S1, next to a second polygon.
C15_Witness ==
    \E h \in Handlers :
        /\ Done(h) /\ req[h].op = "PUT" /\ res[h].status = 200
        /\ req[h].sessionId = Some(S2)
        /\ \E r \in res[h].rows :
              r.session_id = S1 /\ r.name = "B" /\ r.coordinates = Coords4
        /\ Cardinality(table) = 2

\* A body with a non-empty name and three or more vertices.
GoodBody(r) ==
    /\ ~IsUndefined(r.name) /\ Val(r.name) # ""
    /\ ~IsUndefined(r.coordinates) /\ Len(Val(r.coordinates)) >= 3

C16_WitnessUpdate ==
    \E h \in Handlers :
        /\ Done(h) /\ req[h].op = "PUT" /\ res[h].status = 404
        /\ req[h].coordinates = Some(Coords3)

\* C17, state part: a request one of whose Store queries got no answer
\* (connectivity, timeout) is over, answered 500 "Internal Server Error", and
\* has sent each of its statements once: the statement that failed, plus the
\* mutation before it when the failure hit the listing of the refill.
C17_StoreFailureIs500 ==
    \A h \in Handlers :
        gh[h].storeErr = "conn"
        => /\ Done(h) /\ res[h] = InternalError
           /\ gh[h].queries = IF gh[h].committed THEN 2 ELSE 1
           /\ gh[h].set = "none"

\* C17, step part: the step in which the query fails is the step that
\* answers; it sends no second query and writes nothing to the Store or to
\* the cache.
C17_FailureStep ==
    \A h \in Handlers :
        (gh[h].storeErr = "none" /\ gh'[h].storeErr = "conn")
        => /\ pc[h] \in {"insert", "update", "delete", "list", "select"}
           /\ Done(h)' /\ res'[h] = InternalError
           /\ Queried(h)
           /\ UNCHANGED <<table, seq, ver, cache>>

\* C17: a Store query that fails during create, update, delete or a
\* cache-miss list ends the request with 500 "Internal Server Error", and the
\* query is not retried within the request.
C17_StoreErrorSurfaces == []C17_StoreFailureIs500 /\ [][C17_FailureStep]_vars

\* A list that missed the cache lost its SELECT and was answered 500 while
\* the Store held a polygon.
C17_Witness ==
    \E h \in Handlers :
        /\ Done(h) /\ req[h].op = "GET" /\ gh[h].miss = "absent"
        /\ gh[h].storeErr = "conn" /\ res[h] = InternalError
        /\ table # {}

\* The same for the DELETE statement of a delete of an existing id.
C17_WitnessDelete ==
    \E h \in Handlers :
        /\ Done(h) /\ req[h].op = "DELETE" /\ gh[h].storeErr = "conn"
        /\ ~gh[h].committed /\ res[h] = InternalError
        /\ req[h].id.n \in Ids(table)

\* The sessions the model's requests carry.
Sessions == {S1, S2}
OfSession(rows, s) == {r \in rows : r.session_id = s}

\* The Store version a list was answered from: the snapshot's on a hit, the
\* SELECT's on a miss.
ListedAt(h) == IF gh[h].hit THEN gh[h].hitVer ELSE gh[h].readVer

\* C18: list never restricts its result by sessionId: a list answered 200,
\* from the cache or from the Store, answers the polygons of every session
\* the table held at the version it shows, and the snapshot in the cache, or
\* on its way to the cache, is the listing of all sessions.
C18_ListIsGlobal ==
    /\ \A h \in Handlers :
          (Done(h) /\ req[h].op = "GET" /\ res[h].status = 200)
          => /\ ListedAt(h) \in 0..ver
             /\ \A s \in Sessions :
                   OfSession(res[h].rows, s) = OfSession(hist[ListedAt(h)], s)
             /\ {r.session_id : r \in res[h].rows} \subseteq Sessions
    /\ (cache.present /\ JSONparses(cache.val))
          => \A s \in Sessions :
                OfSession(JSONparse(cache.val), s) = OfSession(hist[cache.ver], s)
    /\ \A h \in Handlers :
          pc[h] \in {"set", "getset"}
          => \A s \in Sessions :
                OfSession(polygons[h], s) = OfSession(hist[gh[h].readVer], s)

\* A list that missed the cache answered the polygons of two sessions from
\* the Store and left them all in the cache.
C18_Witness ==
    \E h \in Handlers :
        /\ Done(h) /\ req[h].op = "GET" /\ ~gh[h].hit /\ res[h].status = 200
        /\ \A s \in Sessions : OfSession(res[h].rows, s) # {}
        /\ cache.present /\ cache.src.op = "GET"
        /\ JSONparse(cache.val) = res[h].rows

\* C19: a create answered 201 answers a body whose field `polygon` is the
\* record the INSERT returned and whose field `sessionId` is the sessionId of
\* the request.
C19_CreateAnswersPolygonAndSession ==
    \A h \in Handlers :
        (Done(h) /\ req[h].op = "POST" /\ res[h].status = 201)
        => /\ Field(res[h], "polygon") = Some(gh[h].src.rows)
           /\ Field(res[h], "sessionId") = req[h].sessionId

\* C20, the key goes away: a step after which a present key is absent is the
\* passing of time on a key at the end of its time to live; no request takes
\* a step in it.
C20_AbsentOnlyByExpiry ==
    (cache.present /\ ~cache'.present)
    => /\ cache.ttl <= Quantum
       /\ \A h \in Handlers : ~Moved(h)

\* C20, the key changes: a step that puts a value under the key, or renews
\* its time to live, is a redis.set of a request, and the value is the full
\* listing that request read from the Store (the empty listing when the
\* table was empty), under a fresh expiry.
C20_ChangeIsOverwrite ==
    (cache'.present
        /\ (~cache.present \/ cache'.val # cache.val \/ cache'.ttl > cache.ttl))
    => \E h \in Handlers :
          /\ pc[h] \in {"set", "getset"} /\ gh'[h].set = "ok"
          /\ cache'.ttl = EX
          /\ JSONparses(cache'.val)
          /\ JSONparse(cache'.val) = hist[gh[h].readVer]

\* C20: no operation of the service deletes or empties the cache key: once
\* written it becomes absent only by expiry, and every other change to it is
\* an overwrite with a full listing.
C20_NeverInvalidated ==
    [][C20_AbsentOnlyByExpiry /\ C20_ChangeIsOverwrite]_vars

\* The delete of the last polygon answered 200 and left the key present,
\* holding the listing of the empty table.
C20_Witness ==
    \E h \in Handlers :
        /\ Done(h) /\ req[h].op = "DELETE" /\ res[h].status = 200
        /\ table = {} /\ ver >= 2
        /\ cache.present /\ cache.src.op = "DELETE"
        /\ JSONparse(cache.val) = {}

\* A record that meets the data model: a non-empty name and more than two
\* vertices.
WellFormed(r) == r.name # "" /\ Len(r.coordinates) > 2

\* C21: in every reachable state every polygon the Store holds, written by
\* create or by update, has a non-empty name and a coordinates sequence of
\* length greater than 2; so has every record a request is about to answer
\* with and every record the Store held before.
C21_StoredPolygonsValid ==
    /\ \A r \in table : WellFormed(r)
    /\ \A v \in 0..ver : \A r \in hist[v] : WellFormed(r)
    /\ \A h \in Handlers : \A r \in row[h] \cup polygons[h] : WellFormed(r)

\* The Store holds a record written by a create and one rewritten by an
\* update, after requests with an empty name and with two vertices were
\* turned away.
C21_Witness ==
    /\ \E r \in table : r.name = "A"
    /\ \E r \in table : r.name = "B" /\ r.coordinates = Coords4
    /\ \E h \in Handlers : Done(h) /\ res[h] = InvalidPolygon

\* The request has done its Store operation: a mutation that committed, or
\* a list that was not answered from the cache.
Operated(h) ==
    \/ req[h].op \in Mutations /\ gh[h].committed
    \/ req[h].op = "GET" /\ ~gh[h].hit

\* C22, state part: a create, update, delete or cache-miss list that is over,
\* none of whose Store queries or cache writes failed, has written the cache
\* and answered success; the list answered exactly the rows its SELECT
\* returned.
C22_OperationThenWrite ==
    \A h \in Handlers :
        (Done(h) /\ Operated(h) /\ gh[h].storeErr = "none"
            /\ gh[h].set # "failed")
        => /\ gh[h].set = "ok"
           /\ res[h].status = SuccessOf(req[h].op)
           /\ gh[h].readVer >= gh[h].src.cv
           /\ req[h].op = "GET"
                => res[h].kind = "list" /\ res[h].rows = hist[gh[h].readVer]

\* C22, step part: the step that completes such a request leaves under the
\* key the full listing the request read from the Store after its own Store
\* operation.
C22_WriteStep ==
    \A h \in Handlers :
        (pc[h] \in {"set", "getset"} /\ gh'[h].set = "ok")
        => /\ Done(h)' /\ Operated(h)
           /\ cache'.present /\ JSONparses(cache'.val)
           /\ JSONparse(cache'.val) = hist[gh[h].readVer]
           /\ gh[h].readVer >= gh[h].src.cv
           /\ req[h].op \in Mutations
                => Reflects(JSONparse(cache'.val), gh[h].src)
                   \/ gh[h].readVer > gh[h].src.cv

\* C22: the snapshot is written after every successful mutation and after
\* every cache-miss read: with a healthy cache the key then holds the full
\* listing the request read after its own Store operation, and a list that
\* missed the cache answers 200 with exactly the rows the Store returned.
C22_WrittenAfterOperation ==
    []C22_OperationThenWrite /\ [][C22_WriteStep]_vars

\* An update was answered 200 and the key holds the listing with the updated
\* record, which is the table.
C22_Witness ==
    \E h \in Handlers :
        /\ Done(h) /\ req[h].op = "PUT" /\ res[h].status = 200
        /\ gh[h].set = "ok"
        /\ cache.present /\ cache.src.op = "PUT"
        /\ JSONparse(cache.val) = table
        /\ gh[h].src.rows \subseteq table

\* A list that missed the cache was answered 200 with the rows of the Store
\* and left them under the key.
C22_WitnessList ==
    \E h \in Handlers :
        /\ Done(h) /\ req[h].op = "GET" /\ gh[h].miss = "absent"
        /\ res[h].status = 200 /\ res[h].rows = table /\ table # {}
        /\ cache.present /\ cache.src.op = "GET" /\ cache.ttl = EX

\* One hour, in seconds.
OneHour == 60 * 60

\* C23, state part: a snapshot under the key has between 1 and 3600 seconds
\* left to live; a lookup that found the key absent is on the Store path.
C23_WithinOneHour ==
    /\ cache.present => cache.ttl \in 1..OneHour
    /\ \A h \in Handlers :
          gh[h].miss = "absent"
          => /\ ~gh[h].hit
             /\ pc[h] \in {"select", "getset", "done"}
             /\ Done(h) => gh[h].queries = 1

\* C23, step part: every redis.set of a create, update, delete or cache-miss
\* list puts the whole listing the request read under the key with 3600
\* seconds to live; a key whose time has run out is dropped; the lookup
\* answers from the key only while it has time left, and otherwise hands the
\* request to the Store.
C23_WriteAndExpiryStep ==
    /\ \A h \in Handlers :
          (pc[h] \in {"set", "getset"} /\ gh'[h].set = "ok")
          => /\ cache'.val = JSONstringify(polygons[h])
             /\ cache'.ttl = OneHour
    /\ (cache.present /\ cache' # cache
            /\ \A h \in Handlers : gh'[h].set = gh[h].set)
          => /\ ~cache'.present \/ cache'.ttl < cache.ttl
             /\ ~cache'.present => cache.ttl <= Quantum
    /\ \A h \in Handlers :
          (pc[h] = "get" /\ pc'[h] \in {"select", "done"})
          => IF cache.present /\ cache.ttl > 0 /\ gh'[h].miss # "error"
             THEN gh'[h].hit /\ res'[h].rows = JSONparse(cache.val)
             ELSE pc'[h] = "select" /\ res'[h] = NoRes

\* C23: every cache write of the service writes the whole listing under the
\* one key with a fresh expiry of 3600 s, and a snapshot whose expiry has
\* passed is never answered by list: the key is absent and the Store is read.
C23_FreshHourThenAbsent ==
    []C23_WithinOneHour /\ [][C23_WriteAndExpiryStep]_vars

\* After a create had written the snapshot and been answered 201, a list found
\* the key expired, read the Store and was answered 200.
C23_Witness ==
    \E h \in Handlers :
        /\ acked.created # {}
        /\ Done(h) /\ req[h].op = "GET" /\ gh[h].miss = "absent"
        /\ gh[h].queries = 1 /\ res[h].status = 200 /\ res[h].rows # {}

\* C24: a list that missed the cache writes the listing it read whatever has
\* happened since: when a mutation committed and refilled the key after the
\* list's SELECT, the list's redis.set still lands, replaces the newer
\* snapshot by the older listing, and the list is answered 200 with it.
C24_LateListWriteLands ==
    [][\A h \in Handlers :
          (req[h].op = "GET" /\ pc[h] = "getset" /\ gh'[h].set = "ok"
              /\ gh[h].readVer < ver)
          => /\ cache'.src.op = "GET"
             /\ cache'.ver = gh[h].readVer /\ cache'.ver < ver
             /\ JSONparse(cache'.val) = hist[gh[h].readVer]
             /\ cache.present /\ cache.ver > gh[h].readVer
                  => JSONparse(cache'.val) # JSONparse(cache.val)
                        \/ hist[cache.ver] = hist[gh[h].readVer]
             /\ res'[h].status = 200 /\ res'[h].rows = hist[gh[h].readVer]]_vars

\* The race: a list read the Store before a create committed, the create
\* committed, refilled the key and was answered 201, the list's write landed
\* last; both requests are over and the snapshot lacks the created record.
C24_Witness ==
    \E g, m \in Handlers :
        /\ \A h \in Handlers : Free(h)
        /\ Done(g) /\ req[g].op = "GET" /\ res[g].status = 200
        /\ gh[g].set = "ok"
        /\ Done(m) /\ req[m].op = "POST" /\ res[m].status = 201
        /\ gh[m].set = "ok"
        /\ gh[g].readVer < gh[m].src.cv
        /\ cache.present /\ cache.src.op = "GET" /\ cache.ver = gh[g].readVer
        /\ gh[m].src.rows \subseteq table
        /\ ~Reflects(JSONparse(cache.val), gh[m].src)

\* The listings of the Store as it stood after each commit so far.
StoreListings == {hist[v] : v \in 0..ver}

\* C25: in every reachable state, under any interleaving and any failure of
\* the cache, the snapshot under the key is the complete listing of the Store
\* as it stood at one earlier instant: it never mixes two states of the Store
\* and holds no record the Store never held; the same goes for every listing
\* on its way to the key.
C25_SnapshotIsOneStoreState ==
    /\ cache.present
          => /\ JSONparses(cache.val)
             /\ JSONparse(cache.val) \in StoreListings
             /\ JSONparse(cache.val) \subseteq UNION StoreListings
    /\ \A h \in Handlers :
          pc[h] \in {"set", "getset"} => polygons[h] \in StoreListings

\* After a redis.set failed, the key holds the listing of an earlier state of
\* the Store, which is not the table, while the record it shows has been
\* rewritten since.
C25_Witness ==
    /\ \E h \in Handlers : Done(h) /\ gh[h].set = "failed"
    /\ cache.present /\ ver = 2
    /\ JSONparse(cache.val) = hist[1]
    /\ JSONparse(cache.val) # table
    /\ Ids(JSONparse(cache.val)) = Ids(table) /\ table # {}

\* C26, the hit: the step that answers a list from the cache leaves the
\* Store (rows, id sequence, commits) and the key (value and time to live)
\* exactly as they were, and the request has sent no Store query and no
\* redis.set.
C26_HitChangesNothing ==
    \A h \in Handlers :
        (pc[h] = "get" /\ gh'[h].hit)
        => /\ UNCHANGED <<table, seq, ver, hist, acked>>
           /\ cache' = cache
           /\ gh'[h].queries = 0 /\ gh'[h].set = "none"
           /\ gh'[h].hitVer = cache.ver

\* C26, no renewal: as long as no request is at its redis.set, the snapshot
\* keeps its value and its time to live never grows, however many lists are
\* answered from it; so it is gone one TTL after its last write.
C26_OnlyAges ==
    (cache.present /\ \A h \in Handlers : pc[h] \notin {"set", "getset"})
    => \/ ~cache'.present /\ cache.ttl <= Quantum
       \/ cache'.present /\ cache'.val = cache.val /\ cache'.ttl <= cache.ttl

\* C26: a list served from the cache changes nothing: no Store query, no
\* write of the key, no longer life for the snapshot.
C26_HitIsReadOnly == [][C26_HitChangesNothing /\ C26_OnlyAges]_vars

\* A list was answered from a snapshot that has since expired: the key is
\* absent although the Store holds polygons.
C26_Witness ==
    \E h \in Handlers :
        /\ Done(h) /\ req[h].op = "GET" /\ gh[h].hit
        /\ gh[h].hitVer = ver /\ res[h].rows = table /\ table # {}
        /\ ~cache.present

\* The id of the request of handler h names no row of table t.
UnknownId(h, t) == ~req[h].id.num \/ req[h].id.n \notin Ids(t)

\* C27, the arrival: an update with an invalid body is answered 400 in the
\* step that receives it, whether or not its id names a row, with no Store
\* query and no change of the table; an update with a valid body is answered
\* nothing before its UPDATE.
C27_ValidatedOnArrival ==
    \A h \in Handlers :
        (Free(h) /\ req'[h].op = "PUT" /\ <<pc[h], req[h], gh[h]>>' # <<pc[h], req[h], gh[h]>>)
        => /\ gh'[h].queries = 0
           /\ table' = table
           /\ IF BadBody(req'[h])
              THEN Done(h)' /\ res'[h] = InvalidPolygon
              ELSE pc'[h] = "update" /\ res'[h] = NoRes

\* C27, the answers: an update answered 404 had a valid body and got the
\* answer from its one Store query; an update with an invalid body is never
\* answered 404 and never reaches the Store.
C27_NotFoundOnlyAfterValidation ==
    \A h \in Handlers :
        (req[h].op = "PUT" /\ pc[h] # "idle")
        => /\ (Done(h) /\ res[h].status = 404)
               => GoodBody(req[h]) /\ gh[h].queries = 1 /\ ~gh[h].committed
           /\ BadBody(req[h])
               => /\ Done(h) /\ res[h].status = 400 /\ res[h].status # 404
                  /\ gh[h].queries = 0 /\ gh[h].storeErr = "none"

\* C27: in update, validation is decided before existence: an invalid body on
\* an id that does not exist is answered 400, not 404, with no Store query.
C27_ValidationBeforeExistence ==
    []C27_NotFoundOnlyAfterValidation /\ [][C27_ValidatedOnArrival]_vars

\* An update with an invalid body for an id that names no row of a non-empty
\* table, and that no row ever had, was answered 400.
C27_Witness ==
    \E h \in Handlers :
        /\ Done(h) /\ req[h].op = "PUT" /\ BadBody(req[h])
        /\ req[h].id.num /\ req[h].id.n \notin IdsUpTo(ver)
        /\ UnknownId(h, table) /\ table # {}
        /\ res[h] = InvalidPolygon /\ gh[h].queries = 0

\* None of the Store queries and cache writes of the request of handler h
\* failed.
Healthy(h) == gh[h].storeErr = "none" /\ gh[h].set # "failed"

\* Handlers g and h hold deletes of one id that named a row when each of
\* them arrived: the two requests overlapped.
ConcurrentDeletes(g, h) ==
    /\ g # h
    /\ req[g].op = "DELETE" /\ req[h].op = "DELETE" /\ req[g].id = req[h].id
    /\ gh[g].existed /\ gh[h].existed

\* The commits that took the row with id n out of the table.
Removals(n) == {v \in 1..ver : n \in Ids(hist[v - 1]) \ Ids(hist[v])}

\* The row that the deletes of g and h name was taken out of the table by a
\* request other than these two.
RemovedByThird(g, h) ==
    \E v \in Removals(req[g].id.n) :
        \A k \in {g, h} : ~(gh[k].committed /\ gh[k].src.cv = v)

\* C28: of two overlapping deletes of the same existing id, never more than
\* one removes the row; when both are over, none of their calls failed and
\* no third request removed the row, exactly one answered 200 (the one that
\* removed the row) and the other 404, and the row was removed exactly once.
C28_OneDeleteWins ==
    \A g, h \in Handlers :
        ConcurrentDeletes(g, h)
        => /\ ~(gh[g].committed /\ gh[h].committed)
           /\ Cardinality(Removals(req[g].id.n)) <= 1
           /\ (Done(g) /\ Done(h) /\ Healthy(g) /\ Healthy(h)
                  /\ ~RemovedByThird(g, h))
               => /\ {res[g].status, res[h].status} = {200, 404}
                  /\ \A k \in {g, h} : gh[k].committed <=> res[k].status = 200
                  /\ Cardinality(Removals(req[g].id.n)) = 1
                  /\ req[g].id.n \notin Ids(table)

\* Two deletes of the same sample polygon overlapped and are both over, none
\* of their calls having failed: one answered 200, the other 404.
C28_Witness ==
    \E g, h \in Handlers :
        /\ ConcurrentDeletes(g, h)
        /\ Done(g) /\ Done(h) /\ Healthy(g) /\ Healthy(h)
        /\ res[g].status = 200 /\ res[h] = NotFound
        /\ gh[g].set = "ok" /\ gh[h].queries = 1

\* C29, the snapshot: whenever no request is running, the cached snapshot,
\* when present, is a JSON document of exactly the current Store listing.
C29_SnapshotIsListing ==
    ((\A h \in Handlers : Free(h)) /\ cache.present)
    => JSONparses(cache.val) /\ JSONparse(cache.val) = SelectAll(table)

\* C29, the answers: a completed list, served from the cache or from the
\* Store, is the answer the server without a cache gives on the same Store.
C29_ListAsUncached ==
    \A h \in Handlers :
        (Done(h) /\ req[h].op = "GET") => res[h] = getPolygonsUncached(table)

\* C29: with requests one at a time and no Store or cache failure, GET
\* /polygons of the caching server returns the listing GET /polygons of the
\* server without a cache returns; after every completed request the cached
\* snapshot, when present, equals the Store listing.
C29_CachedReadsAsUncached == C29_SnapshotIsListing /\ C29_ListAsUncached

\* After a create and an update a list was answered from the snapshot the
\* update wrote, with the rows the Store holds.
C29_Witness ==
    \E h \in Handlers :
        /\ Done(h) /\ req[h].op = "GET" /\ gh[h].hit
        /\ gh[h].hitSrc.op = "PUT" /\ ver >= 2 /\ table # {}
        /\ res[h] = getPolygonsUncached(table)
        /\ cache.present /\ JSONparse(cache.val) = table

\* A list that missed the cache answered from the Store after a delete.
C29_WitnessMiss ==
    \E h \in Handlers :
        /\ Done(h) /\ req[h].op = "GET" /\ ~gh[h].hit /\ gh[h].set = "ok"
        /\ ver >= 2 /\ Removals(1) # {}
        /\ res[h] = getPolygonsUncached(table)

\* The statuses the four endpoints answer with.
Statuses == {200, 201, 400, 404, 500}

\* C30, at most one: a request that is over was sent one response, with a
\* status of the endpoints; a request still running was sent none.
C30_OneResponse ==
    \A h \in Handlers :
        /\ Done(h) => res[h].sent = 1 /\ res[h].status \in Statuses
        /\ ~Done(h) => res[h] = NoRes

\* C30, a response once sent is the last thing the request does: no step of
\* a request that is over changes its response, short of the next request.
C30_NothingAfterResponse ==
    \A h \in Handlers :
        (Done(h) /\ res'[h] # res[h])
        => req'[h].op # "none" /\ gh'[h].queries = 0 /\ res'[h].sent <= 1

\* C30, at least one: every request that has been received is over at some
\* later point, whatever path it takes.
C30_Responds ==
    \A h \in Handlers : (pc[h] \notin {"idle", "done"}) ~> Done(h)

\* C30: every request receives exactly one response on every path, provided
\* each Store and cache call returns or throws in the end.
C30_ExactlyOneResponse ==
    /\ []C30_OneResponse
    /\ [][C30_NothingAfterResponse]_vars
    /\ C30_Responds

\* Two requests are over with one response each: a list whose cache lookup
\* threw and that was answered from the Store, and a mutation that committed
\* and was answered 500 because a later call of it failed.
C30_Witness ==
    \E g, h \in Handlers :
        /\ Done(g) /\ req[g].op = "GET" /\ gh[g].miss = "error"
        /\ res[g].status = 200 /\ res[g].sent = 1
        /\ Done(h) /\ req[h].op \in Mutations /\ gh[h].committed
        /\ res[h] = InternalError /\ res[h].sent = 1

\* An update of an unknown id was answered 404 and a create with an invalid
\* body 400, one response each.
C30_WitnessRefusals ==
    \E g, h \in Handlers :
        /\ Done(g) /\ req[g].op = "PUT" /\ res[g] = NotFound /\ res[g].sent = 1
        /\ Done(h) /\ req[h].op = "POST" /\ res[h] = InvalidPolygon
        /\ res[h].sent = 1

\* The seed script has left its try block.
SeedOver == seed.pc \in {"end", "disconnect", "exit", "exited"}

\* The commit by which the k-th row the seed script inserted entered the
\* table.
SeedCommit(k) ==
    CHOOSE v \in 1..ver :
        seed.ins[k] \in hist[v] /\ seed.ins[k].id \notin Ids(hist[v - 1])

\* From the script's first INSERT to its SELECT nobody else committed.
SeedUndisturbed ==
    \A v \in SeedCommit(1)..seed.readVer :
        \E k \in 1..Len(seed.ins) : v = SeedCommit(k)

\* C31, the loop: the rows the script has inserted are the sample polygons in
\* the order of the array, one commit each, each after the one before; the
\* SELECT is sent only after the last of them.
C31_OneAfterAnother ==
    /\ Len(seed.ins) = seed.i - 1
    /\ \A k \in 1..Len(seed.ins) :
        /\ seed.ins[k] = sampleList[k] @@ [id |-> seed.ins[k].id]
        /\ \A j \in 1..(k - 1) :
            /\ seed.ins[j].id < seed.ins[k].id
            /\ SeedCommit(j) < SeedCommit(k)
    /\ seed.pc \in {"select", "set"} => Len(seed.ins) = Len(sampleList)

\* C31, success: a seed that left its try block without a throw inserted
\* every sample polygon and wrote the full listing of a SELECT sent after the
\* last INSERT; the listing holds the seeded polygons when nobody else
\* committed meanwhile; while the key holds that snapshot it is a JSON
\* document of the listing, with at most one hour to live, and equals the
\* Store listing as long as the Store has not changed since the SELECT.
C31_SeededSnapshot ==
    (SeedOver /\ ~seed.failed)
    => /\ seed.set /\ Len(seed.ins) = Len(sampleList)
       /\ seed.readVer >= SeedCommit(Len(sampleList))
       /\ seed.rows = hist[seed.readVer]
       /\ SeedUndisturbed => \A k \in 1..Len(seed.ins) : seed.ins[k] \in seed.rows
       /\ (cache.present /\ cache.src = SeedSrc)
           => /\ JSONparses(cache.val) /\ JSONparse(cache.val) = seed.rows
              /\ cache.ttl <= OneHour
              /\ ver = seed.readVer => JSONparse(cache.val) = SelectAll(table)

\* C31, release: the process has exited only with its pool ended and its
\* cache connection closed, after a success and after a failure alike; both
\* are open as long as the try block runs; the catch block runs only when
\* the cache was not written.
C31_Released ==
    /\ seed.pc = "exited" => seed.pool = "ended" /\ seed.redis = "closed"
    /\ seed.pc \in {"insert", "select", "set"}
        => seed.pool = "open" /\ seed.redis = "open"
    /\ seed.failed => ~seed.set /\ (SeedOver \/ seed.pc = "idle")

\* C31, the write and the exit as steps: the script's redis.set stores the
\* rows of its SELECT under a one-hour expiry and changes nothing in the
\* Store; process.exit comes after pool.end and redis.disconnect.
C31_SetAndExitStep ==
    /\ (seed.pc = "set" /\ seed'.set)
        => /\ cache'.present /\ JSONparse(cache'.val) = seed.rows
           /\ cache'.ttl = OneHour /\ cache'.src = SeedSrc
           /\ UNCHANGED <<table, seq, ver>>
    /\ (seed.pc # "exited" /\ seed'.pc = "exited")
        => seed.pool = "ended" /\ seed.redis = "closed"
    /\ (seed.pool = "ended" => seed'.pool = "ended")
    /\ (seed.redis = "closed" => seed'.redis = "closed")

C31_WitnessFailure ==
    /\ seed.pc = "exited" /\ seed.failed /\ Len(seed.ins) = 1
    /\ table = {seed.ins[1]} /\ ~cache.present
    /\ seed.pool = "ended" /\ seed.redis = "closed"

\* A request committed between the script's SELECT and its redis.set: the
\* snapshot of the successful seed is not the Store listing any more.
C31_WitnessDisturbed ==
    /\ seed.pc = "exited" /\ ~seed.failed
    /\ cache.present /\ cache.src = SeedSrc /\ ver > seed.readVer
    /\ JSONparse(cache.val) # table

====
